---- MODULE Spec2Model ----
(***************************************************************************)
(* FirstIn polling engine: the scheduler's per-ATS worker loops, the       *)
(* per-company poll pipeline (first-run probe, fetch, filter, freshness    *)
(* gate, dedup, notify, commit) and the seen-set store they share.         *)
(* Time is counted in hours.  Strings that the filter inspects are tuples  *)
(* of one-character strings so that lower-casing and substring search are  *)
(* computed the way the code computes them.                                *)
(***************************************************************************)
EXTENDS Integers, Sequences, FiniteSets, TLC

(* ------------------------------ bounds --------------------------------- *)

\* longest job list one fetch returns
MaxFetch == 2
\* Poll calls the scheduler starts, over all groups, before the workers only sleep
MaxPolls == 3
\* last hour the clock reaches
MaxNow == 2

\* pages an upstream listing has at most, and entries on a page
MaxPages == 3
PageLen == 2

\* jobs in a batch handed to the notifier at most
MaxBatch == 3

\* last instant the rate limiter's clock reaches
MaxClock == 3

(* --------------------------- program constants ------------------------- *)

\* the freshness gate's window: now.Add(-1*time.Hour)
GateHours == 1
\* config validation: filters.max_age must lie in [1h, 24h]
MinMaxAge == 1
MaxMaxAge == 24
\* hour at which the daemon starts
StartHour == 1
\* a nil *time.Time
NoTime == -1

(* ------------------------------ strings -------------------------------- *)

LowerOf == [c \in {"E", "N", "G", "M", "R", "L", "e", "n", "g", "m", "r", "l", "2", ";"} |->
              CASE c = "E" -> "e" [] c = "N" -> "n" [] c = "G" -> "g"
                [] c = "M" -> "m" [] c = "R" -> "r" [] c = "L" -> "l" [] OTHER -> c]

\* strings.ToLower
ToLower(s) == [i \in 1..Len(s) |-> LowerOf[s[i]]]

\* strings.Contains
Contains(s, sub) ==
    \E i \in 0..(Len(s) - Len(sub)) : \A j \in 1..Len(sub) : s[i + j] = sub[j]

(* ------------------------------- filter -------------------------------- *)

\* the keyword lists of the configured TitleAndLocationFilter
FilterCfg == [titleKeywords        |-> << <<"E", "n", "g">> >>,
              titleExcludeKeywords |-> << <<"m", "g", "r">> >>,
              locations            |-> << >>,
              excludeLocations     |-> << <<"r", "m">> >>]

AnyContains(text, kws) == \E i \in 1..Len(kws) : Contains(text, ToLower(kws[i]))

\* TitleAndLocationFilter.Match
Match(job) ==
    LET titleLower    == ToLower(job.title)
        locationLower == ToLower(job.location)
    IN  /\ (Len(FilterCfg.titleKeywords) > 0 => AnyContains(titleLower, FilterCfg.titleKeywords))
        /\ ~AnyContains(titleLower, FilterCfg.titleExcludeKeywords)
        /\ (Len(FilterCfg.locations) > 0 => AnyContains(locationLower, FilterCfg.locations))
        /\ ~AnyContains(locationLower, FilterCfg.excludeLocations)

(* ------------------------------ seen-set ------------------------------- *)

\* the seen_jobs table: job_id -> first_seen
EmptyStore == [x \in {} |-> 0]

\* SQLiteStore.IsEmpty: SELECT COUNT(*) ... count == 0
IsEmptyNever(s) == FALSE
IsEmpty(s) == DOMAIN s = {}

\* SQLiteStore.HasSeen: SELECT 1 FROM seen_jobs WHERE job_id = ?
HasSeenNever(s, id) == FALSE
HasSeen(s, id) == id \in DOMAIN s

\* SQLiteStore.MarkSeen: INSERT OR IGNORE, first_seen defaults to the current time
MarkSeenNop(s, id, t) == s
MarkSeenReplace(s, id, t) == [x \in DOMAIN s \cup {id} |-> IF x = id THEN t ELSE s[x]]
MarkSeen(s, id, t) ==
    IF id \in DOMAIN s THEN s
    ELSE [x \in DOMAIN s \cup {id} |-> IF x = id THEN t ELSE s[x]]

\* what Exec returns for the INSERT OR IGNORE on an open database: a duplicate
\* key is skipped, not reported
MarkSeenErr(s, id) == "nil"

\* the offsets from UTC of the zones the process may run in, in hours
ZoneOffsets == {-1, 0, 1}

\* first_seen as SQLite writes it: CURRENT_TIMESTAMP, the UTC wall clock in
\* whole units, as text
FirstSeenText(t) == t

\* the cutoff as the driver binds it: time.Now().Add(-olderThan) is a local
\* time and is written as text with its local wall clock first, then the
\* fraction and the zone
CutoffText(t, olderThan, zone) == (t - olderThan) + zone

\* first_seen < ? on the two texts: the wall clocks decide; when they are
\* equal the column's text is a proper prefix of the parameter's and is less
TextLess(firstSeen, cutoff) == firstSeen <= cutoff

\* SQLiteStore.Cleanup: DELETE FROM seen_jobs WHERE first_seen < ?
Cleanup(s, t, olderThan, zone) ==
    LET kept == {x \in DOMAIN s : ~TextLess(FirstSeenText(s[x]), CutoffText(t, olderThan, zone))}
    IN  [x \in kept |-> s[x]]

(* --------------------------- configuration ----------------------------- *)

\* the enabled companies, in config order, with their ATS tag
Companies == << [name |-> "acme",    ats |-> "greenhouse"],
                [name |-> "globex",  ats |-> "greenhouse"],
                [name |-> "initech", ats |-> "microsoft"] >>

Pollers == 1..Len(Companies)

ATSNames == {Companies[p].ats : p \in Pollers}

\* Scheduler.groupByATS: pollers of one ATS, config order preserved
GroupByATS(ats) == SelectSeq([p \in Pollers |-> p], LAMBDA p : Companies[p].ats = ats)

\* config.validate on filters.max_age: the freshness windows a config may state
ValidMaxAge(h) == ~(h < MinMaxAge \/ h > MaxMaxAge)

(* ------------------------------ upstream ------------------------------- *)

Job(id, src, title, loc, posted) ==
    [id |-> id, source |-> src, title |-> title, location |-> loc, postedAt |-> posted]

\* the postings a company's board may list; greenhouse and microsoft both
\* print a numeric upstream id with %d, so their id strings can coincide
Listings(p) ==
    LET ats == Companies[p].ats
    IN  CASE Companies[p].name = "acme" ->
               { Job("1", ats, <<"E", "N", "G">>, << >>, NoTime),
                 Job("5", ats, <<"E", "n", "g", "M", "g", "r">>, << >>, NoTime) }
          [] Companies[p].name = "globex" ->
               { Job("3", ats, <<"e", "n", "g", "r">>, <<"R", "e">>, NoTime) }
          [] OTHER ->
               { Job("1", ats, <<"E", "n", "g">>, << >>, 0),
                 Job("2", ats, <<"e", "n", "g">>, << >>, NoTime) }

SeqsUpTo(S, n) == UNION {[1..k -> S] : k \in 0..n}

\* the job lists a fetch of poller p's board may return
Responses(p) == SeqsUpTo(Listings(p), MaxFetch)

(* ---------------------------- RetryFetcher ---------------------------- *)
\* Durations of this part are counted in half seconds.

\* retry.NewRetryFetcher(fetcher, 2, 5*time.Second, logger)
MaxRetries == 2
BaseDelay == 10
\* rate_limit.min_delay, default 600 s; polling_interval of the sample config, 10m
MinDelay == 1200
PollingInterval == 1200

\* the errors a fetch can end with: a plain error, one that wraps
\* context.Canceled or context.DeadlineExceeded, or a *model.HTTPError
NoErr == [kind |-> "nil", status |-> 0, retryAfter |-> 0]
PlainErr == [kind |-> "plain", status |-> 0, retryAfter |-> 0]
CanceledErr == [kind |-> "canceled", status |-> 0, retryAfter |-> 0]
DeadlineErr == [kind |-> "deadline", status |-> 0, retryAfter |-> 0]
HTTPError(status, retryAfter) == [kind |-> "http", status |-> status, retryAfter |-> retryAfter]

\* fmt.Errorf("retry cancelled: %w", ...): the wrapper itself
RetryCancelled == [kind |-> "retry cancelled", status |-> 0, retryAfter |-> 0]

\* status codes an adapter turns into an HTTPError, and the Retry-After values
\* parseRetryAfter yields: absent, 1 s, 30 s
Statuses == {404, 429, 499, 500, 503}
RetryAfters == {0, 2, 60}

\* what the wrapped fetcher may return as its error
InnerErrors ==
    {PlainErr, CanceledErr, DeadlineErr}
        \cup {HTTPError(st, ra) : st \in Statuses, ra \in RetryAfters}

\* isRetryable
IsRetryableOnly5xx(err) ==
    IF err.kind = "nil" THEN FALSE
    ELSE IF err.kind \in {"canceled", "deadline"} THEN FALSE
    ELSE IF err.kind = "http" THEN err.status >= 500
    ELSE TRUE
IsRetryable(err) ==
    IF err.kind = "nil" THEN FALSE
    ELSE IF err.kind \in {"canceled", "deadline"} THEN FALSE
    ELSE IF err.kind = "http"
         THEN IF err.status = 429 THEN TRUE
              ELSE IF err.status >= 500 THEN TRUE
              ELSE FALSE
    ELSE TRUE

\* for i := 1; i < attempt; i++ { delay *= 2 }
RECURSIVE Doubled(_, _, _)
Doubled(delay, i, attempt) ==
    IF i < attempt THEN Doubled(delay * 2, i + 1, attempt) ELSE delay

\* delay + (rand.Float64()*2-1) * 0.3*delay, for rand.Float64() in [0, 1)
Jittered(delay) == {d \in 0..(2 * delay) : 7 * delay <= 10 * d /\ 10 * d < 13 * delay}

\* RetryFetcher.backoffDelay: the delays it may return
BackoffDelayNoOverride(attempt, err) == Jittered(Doubled(BaseDelay, 1, attempt))
BackoffDelay(attempt, err) ==
    IF err.kind = "http" /\ err.retryAfter > 0
    THEN {err.retryAfter}
    ELSE Jittered(Doubled(BaseDelay, 1, attempt))

\* the loop condition of FetchJobs: attempt <= f.maxRetries
AttemptsLeftOneLess(attempt, maxRetries) == attempt < maxRetries
AttemptsLeft(attempt, maxRetries) == attempt <= maxRetries

\* no earlier inner call to measure from
NoGap == -1

\* a RetryFetcher built with maxRetries, before any FetchJobs call
IdleFetch(maxRetries) ==
    [pc |-> "idle", maxRetries |-> maxRetries, attempt |-> 0, calls |-> 0,
     err |-> NoErr, retryable |-> FALSE, lastErr |-> NoErr, delay |-> 0,
     how |-> "none", ret |-> << >>, since |-> NoGap, gap |-> NoGap,
     inner |-> << >>, jobs |-> << >>]

\* the job lists (ids) the wrapped fetcher may return
FetchResults == {<< >>, <<"1">>, <<"1", "2">>}

(* ------------------------------- state --------------------------------- *)

VARIABLES
    store,      \* the shared seen-set
    now,        \* wall clock, hours
    cancelled,  \* ctx.Done() is closed
    wpc,        \* per ATS group: where its worker goroutine is
    widx,       \* per ATS group: index i of the inner for loop
    polls,      \* Poll calls started so far, over all pollers
    runDone,    \* Scheduler.Run has returned
    poll,       \* per poller: the locals of its Poll call in progress or just returned
    prev,       \* per poller: what its previous Poll call fetched, delivered and returned,
                \* and how many Poll calls it has completed
    rf,         \* one RetryFetcher: its FetchJobs call in progress and the pace of its inner calls
    lp,         \* the scheduler's workers with Poll reduced to its outcome
    op,         \* the latest operation on the seen-set, with the table as it was before
    pg,         \* one paginating adapter: its page loop over an upstream listing
    sl,         \* one SlackNotifier.Notify call
    ck,         \* the check command: its loop over the pollers and the Poll in progress
    rl,         \* one ATSRateLimiter and the Wait calls of the goroutines that share it
    wd          \* one WorkdayAdapter.FetchJobs over a listing, then the poller's filter

vars == <<store, now, cancelled, wpc, widx, polls, runDone, poll, prev, rf, lp, op, pg, sl, ck, rl, wd>>

\* locals of a Poll call that has not started
IdlePoll == [pc |-> "idle", probed |-> FALSE, firstRun |-> FALSE, fetched |-> "none",
             jobs |-> << >>, matched |-> << >>, newJobs |-> << >>,
             k |-> 1, err |-> "nil", notify |-> << >>, commits |-> << >>]

\* record of a Poll call that never happened
NoPoll == [ran |-> FALSE, firstRun |-> FALSE, fetched |-> "none", jobs |-> << >>,
           ok |-> TRUE, notify |-> << >>, wrote |-> FALSE, n |-> 0]

\* what is remembered of a Poll call once the worker has moved on
Summary(rec, before) ==
    [ran |-> TRUE, firstRun |-> rec.firstRun, fetched |-> rec.fetched,
     jobs |-> rec.jobs, ok |-> (rec.err = "nil"), notify |-> rec.notify,
     wrote |-> (before.wrote \/ rec.commits # << >>), n |-> before.n + 1]

\* the scheduler's workers before Run has started them: per group the place in
\* runATSLoop, the index of the inner loop, the pollers polled so far in the
\* current pass and the duration of the latest min_delay sleep; per poller
\* whether its Poll is in progress and what its latest Poll returned
IdleLoop == [wpc |-> [g \in ATSNames |-> "loop"], widx |-> [g \in ATSNames |-> 1],
             pass |-> [g \in ATSNames |-> << >>], slept |-> [g \in ATSNames |-> NoGap],
             inPoll |-> [p \in Pollers |-> FALSE], last |-> [p \in Pollers |-> "none"],
             done |-> FALSE]

\* no operation on the seen-set yet, in a process whose zone is UTC
NoOp == [name |-> "none", id |-> "", olderThan |-> 0, before |-> EmptyStore,
         seen |-> FALSE, err |-> "nil", zone |-> 0]
\* a paginating adapter that has not been asked to fetch
IdlePages == [adapter |-> "none", audit |-> FALSE, pages |-> << >>, n |-> 0, pc |-> "idle"]
\* a SlackNotifier before Notify is called
IdleSlack == [pc |-> "idle", jobs |-> << >>, i |-> 1, failures |-> 0, sent |-> << >>,
              ret |-> "none"]
\* the check command before it runs: its place, the index of its loop over
\* the pollers, the ATS names already tested, what each Poll it made did, the
\* locals of the Poll in progress and the seen-set file as it found it
IdleCheck == [pc |-> "idle", i |-> 1, seen |-> {}, polled |-> << >>, rec |-> IdlePoll,
              disk |-> EmptyStore]

\* the goroutines that share the rate limiter
Callers == 1..2
\* a goroutine that is not inside Wait: where it is, the ATS it asked for, the
\* instant its timer fires, what Wait returned and when
IdleWait == [pc |-> "idle", ats |-> "none", wake |-> NoTime, ret |-> "none", at |-> NoTime]
\* NewATSRateLimiter: an empty lastCall map; with it the clock, the goroutines,
\* and per ATS the instant of the latest nil return and the smallest distance
\* between two nil returns so far
IdleLimiter == [clock |-> 0, lastCall |-> [a \in ATSNames |-> NoTime],
                call |-> [g \in Callers |-> IdleWait],
                lastRet |-> [a \in ATSNames |-> NoTime],
                gap |-> [a \in ATSNames |-> NoTime]]
\* a WorkdayAdapter before FetchJobs is called
NoListing == [pc |-> "idle", listing |-> [title |-> << >>, locationsText |-> << >>, fresh |-> FALSE],
              detail |-> [title |-> << >>, location |-> << >>, additionalLocations |-> << >>],
              detailErr |-> FALSE, preFilter |-> FALSE, auditMode |-> FALSE,
              detailFetched |-> FALSE, err |-> "nil", jobs |-> << >>, matched |-> << >>]

Init ==
    /\ store = EmptyStore
    /\ now = StartHour
    /\ cancelled = FALSE
    /\ wpc = [g \in ATSNames |-> "loop"]
    /\ widx = [g \in ATSNames |-> 1]
    /\ polls = 0
    /\ runDone = FALSE
    /\ poll = [p \in Pollers |-> IdlePoll]
    /\ prev = [p \in Pollers |-> NoPoll]
    /\ rf = IdleFetch(MaxRetries)
    /\ lp = IdleLoop
    /\ op = NoOp
    /\ pg = IdlePages
    /\ sl = IdleSlack
    /\ ck = IdleCheck
    /\ rl = IdleLimiter
    /\ wd = NoListing

(* ---------------------------- CompanyPoller ---------------------------- *)

\* job.PostedAt != nil && job.PostedAt.Before(now.Add(-1*time.Hour))
StaleEvenWithoutDate(job, t) == job.postedAt < t - GateHours
Stale(job, t) == job.postedAt # NoTime /\ job.postedAt < t - GateHours

\* the filter loop of Poll: filter, then the freshness gate unless seeding
MatchedUnfiltered(jobs, firstRun, t) ==
    SelectSeq(jobs, LAMBDA j : ~(~firstRun /\ Stale(j, t)))
Matched(jobs, firstRun, t) ==
    SelectSeq(jobs, LAMBDA j : Match(j) /\ ~(~firstRun /\ Stale(j, t)))

\* Poll returns e
Return(rec, e) == [rec EXCEPT !.pc = "returned", !.err = e, !.k = 1, !.newJobs = << >>]

\* the branch Poll takes once the dedup loop is over
AfterDedupSkipNotify(rec) ==
    IF rec.firstRun
    THEN IF rec.newJobs = << >> THEN Return(rec, "nil")
         ELSE [rec EXCEPT !.pc = "seed", !.k = 1]
    ELSE IF Len(rec.newJobs) > 0 THEN [rec EXCEPT !.pc = "markSeen", !.k = 1]
         ELSE Return(rec, "nil")
AfterDedup(rec) ==
    IF rec.firstRun
    THEN IF rec.newJobs = << >> THEN Return(rec, "nil")
         ELSE [rec EXCEPT !.pc = "seed", !.k = 1]
    ELSE IF Len(rec.newJobs) > 0 THEN [rec EXCEPT !.pc = "notify"]
         ELSE Return(rec, "nil")

\* the branch Poll takes once the filter loop is over
AfterFilter(rec) ==
    IF rec.matched = << >> THEN AfterDedup(rec)
    ELSE [rec EXCEPT !.pc = "hasSeen", !.k = 1]

Step(p, rec) == poll' = [poll EXCEPT ![p] = rec]

\* firstRun, err := p.store.IsEmpty()
PollIsEmpty(p) ==
    /\ poll[p].pc = "isEmpty"
    /\ \/ Step(p, [poll[p] EXCEPT !.pc = "fetch", !.probed = TRUE,
                                  !.firstRun = IsEmpty(store)])
       \/ Step(p, Return(poll[p], "isEmpty"))
    /\ UNCHANGED <<store, now, cancelled, wpc, widx, polls, runDone, prev, rf, lp, op, pg, sl, ck, rl, wd>>

\* a failed fetch makes Poll return the error
FetchFailedIgnored(rec) == Return([rec EXCEPT !.fetched = "err"], "nil")
FetchFailed(rec) == Return([rec EXCEPT !.fetched = "err"], "fetch")

\* jobs, err := p.fetcher.FetchJobs(ctx); now := time.Now(); the filter loop
PollFetch(p) ==
    /\ poll[p].pc = "fetch"
    /\ \/ Step(p, FetchFailed(poll[p]))
       \/ \E r \in Responses(p) :
             Step(p, AfterFilter([poll[p] EXCEPT
                        !.fetched = "ok", !.jobs = r,
                        !.matched = Matched(r, poll[p].firstRun, now)]))
    /\ UNCHANGED <<store, now, cancelled, wpc, widx, polls, runDone, prev, rf, lp, op, pg, sl, ck, rl, wd>>

\* one iteration of the dedup loop: seen, err := p.store.HasSeen(job.ID)
PollHasSeenPrepend(p) ==
    LET rec == poll[p]
        job == rec.matched[rec.k]
        kept == IF HasSeen(store, job.id) THEN rec.newJobs ELSE <<job>> \o rec.newJobs
        nxt == [rec EXCEPT !.newJobs = kept, !.k = rec.k + 1]
    IN  /\ rec.pc = "hasSeen"
        /\ \/ Step(p, Return(rec, "hasSeen"))
           \/ Step(p, IF rec.k = Len(rec.matched) THEN AfterDedup(nxt) ELSE nxt)
        /\ UNCHANGED <<store, now, cancelled, wpc, widx, polls, runDone, prev, rf, lp, op, pg, sl, ck, rl, wd>>
PollHasSeen(p) ==
    LET rec == poll[p]
        job == rec.matched[rec.k]
        kept == IF HasSeen(store, job.id) THEN rec.newJobs ELSE Append(rec.newJobs, job)
        nxt == [rec EXCEPT !.newJobs = kept, !.k = rec.k + 1]
    IN  /\ rec.pc = "hasSeen"
        /\ \/ Step(p, Return(rec, "hasSeen"))
           \/ Step(p, IF rec.k = Len(rec.matched) THEN AfterDedup(nxt) ELSE nxt)
        /\ UNCHANGED <<store, now, cancelled, wpc, widx, polls, runDone, prev, rf, lp, op, pg, sl, ck, rl, wd>>

\* one iteration of a commit loop: p.store.MarkSeen(job.ID)
CommitStopsOnCancel(p, failure) ==
    LET rec == poll[p]
        id  == rec.newJobs[rec.k].id
        nxt == [rec EXCEPT !.commits = Append(rec.commits, id), !.k = rec.k + 1]
    IN  \/ /\ Step(p, Return(rec, failure))
           /\ UNCHANGED <<store>>
        \/ /\ cancelled
           /\ Step(p, Return(rec, "cancelled"))
           /\ UNCHANGED <<store>>
        \/ /\ ~cancelled
           /\ store' = MarkSeen(store, id, now)
           /\ Step(p, IF rec.k = Len(rec.newJobs) THEN Return(nxt, "nil") ELSE nxt)
Commit(p, failure) ==
    LET rec == poll[p]
        id  == rec.newJobs[rec.k].id
        nxt == [rec EXCEPT !.commits = Append(rec.commits, id), !.k = rec.k + 1]
    IN  \/ /\ Step(p, Return(rec, failure))
           /\ UNCHANGED <<store>>
        \/ /\ store' = MarkSeen(store, id, now)
           /\ Step(p, IF rec.k = Len(rec.newJobs) THEN Return(nxt, "nil") ELSE nxt)

\* first-run suppression: seed the store without notifying
PollSeed(p) ==
    /\ poll[p].pc = "seed"
    /\ Commit(p, "seed")
    /\ UNCHANGED <<now, cancelled, wpc, widx, polls, runDone, prev, rf, lp, op, pg, sl, ck, rl, wd>>

\* a failed Notify makes Poll return the error before the commit loop
NotifyFailedIgnored(rec, call) ==
    [rec EXCEPT !.pc = "markSeen", !.k = 1, !.notify = Append(rec.notify, call)]
NotifyFailed(rec, call) ==
    Return([rec EXCEPT !.notify = Append(rec.notify, call)], "notify")

\* p.notifier.Notify(newJobs)
PollNotify(p) ==
    LET rec == poll[p]
    IN  /\ rec.pc = "notify"
        /\ \/ Step(p, [rec EXCEPT !.pc = "markSeen", !.k = 1,
                          !.notify = Append(rec.notify, [batch |-> rec.newJobs, ok |-> TRUE])])
           \/ Step(p, NotifyFailed(rec, [batch |-> rec.newJobs, ok |-> FALSE]))
        /\ UNCHANGED <<store, now, cancelled, wpc, widx, polls, runDone, prev, rf, lp, op, pg, sl, ck, rl, wd>>

\* the commit loop after a successful Notify
PollMarkSeen(p) ==
    /\ poll[p].pc = "markSeen"
    /\ Commit(p, "markSeen")
    /\ UNCHANGED <<now, cancelled, wpc, widx, polls, runDone, prev, rf, lp, op, pg, sl, ck, rl, wd>>

(* ------------------------------ Scheduler ------------------------------ *)

\* the poller the worker of group g is at
Current(g) == GroupByATS(g)[widx[g]]

\* top of the inner loop: if ctx.Err() != nil return; else p.Poll(ctx)
WorkerPoll(g) ==
    /\ wpc[g] = "loop"
    /\ IF cancelled
       THEN /\ wpc' = [wpc EXCEPT ![g] = "exited"]
            /\ UNCHANGED <<poll, prev, polls>>
       ELSE /\ polls < MaxPolls
            /\ polls' = polls + 1
            /\ wpc' = [wpc EXCEPT ![g] = "polling"]
            /\ poll' = [poll EXCEPT ![Current(g)] = [IdlePoll EXCEPT !.pc = "isEmpty"]]
            /\ UNCHANGED prev
    /\ UNCHANGED <<store, now, cancelled, widx, runDone, rf, lp, op, pg, sl, ck, rl, wd>>

\* Poll has returned: log the error, then the min_delay sleep unless this was
\* the last poller of the group, in which case the polling_interval sleep
WorkerAfterPoll(g) ==
    /\ wpc[g] = "polling"
    /\ poll[Current(g)].pc = "returned"
    /\ wpc' = [wpc EXCEPT ![g] = IF widx[g] < Len(GroupByATS(g)) THEN "minDelay" ELSE "interval"]
    /\ prev' = [prev EXCEPT ![Current(g)] = Summary(poll[Current(g)], @)]
    /\ poll' = [poll EXCEPT ![Current(g)] = IdlePoll]
    /\ UNCHANGED <<store, now, cancelled, widx, polls, runDone, rf, lp, op, pg, sl, ck, rl, wd>>

\* select { case <-ctx.Done(): return; case <-time.After(s.minDelay): }
WorkerMinDelayStay(g) ==
    /\ wpc[g] = "minDelay"
    /\ \/ /\ cancelled
          /\ wpc' = [wpc EXCEPT ![g] = "exited"]
          /\ UNCHANGED widx
       \/ /\ wpc' = [wpc EXCEPT ![g] = "loop"]
          /\ UNCHANGED widx
    /\ UNCHANGED <<store, now, cancelled, polls, runDone, poll, prev, rf, lp, op, pg, sl, ck, rl, wd>>
WorkerMinDelay(g) ==
    /\ wpc[g] = "minDelay"
    /\ \/ /\ cancelled
          /\ wpc' = [wpc EXCEPT ![g] = "exited"]
          /\ UNCHANGED widx
       \/ /\ wpc' = [wpc EXCEPT ![g] = "loop"]
          /\ widx' = [widx EXCEPT ![g] = @ + 1]
    /\ UNCHANGED <<store, now, cancelled, polls, runDone, poll, prev, rf, lp, op, pg, sl, ck, rl, wd>>

\* select { case <-ctx.Done(): return; case <-time.After(s.interval): }
WorkerInterval(g) ==
    /\ wpc[g] = "interval"
    /\ \/ /\ cancelled
          /\ wpc' = [wpc EXCEPT ![g] = "exited"]
          /\ UNCHANGED widx
       \/ /\ wpc' = [wpc EXCEPT ![g] = "loop"]
          /\ widx' = [widx EXCEPT ![g] = 1]
    /\ UNCHANGED <<store, now, cancelled, polls, runDone, poll, prev, rf, lp, op, pg, sl, ck, rl, wd>>

\* wg.Wait() is over: Run logs and returns nil
RunReturn ==
    /\ ~runDone
    /\ \A g \in ATSNames : wpc[g] = "exited"
    /\ runDone' = TRUE
    /\ UNCHANGED <<store, now, cancelled, wpc, widx, polls, poll, prev, rf, lp, op, pg, sl, ck, rl, wd>>

(* ----------------------------- environment ----------------------------- *)

\* SIGINT / SIGTERM closes the context
Cancel ==
    /\ ~cancelled
    /\ cancelled' = TRUE
    /\ UNCHANGED <<store, now, wpc, widx, polls, runDone, poll, prev, rf, lp, op, pg, sl, ck, rl, wd>>

\* an hour passes
Tick ==
    /\ now < MaxNow
    /\ now' = now + 1
    /\ UNCHANGED <<store, cancelled, wpc, widx, polls, runDone, poll, prev, rf, lp, op, pg, sl, ck, rl, wd>>

Next ==
    \/ \E p \in Pollers : PollIsEmpty(p)
    \/ \E p \in Pollers : PollFetch(p)
    \/ \E p \in Pollers : PollHasSeen(p)
    \/ \E p \in Pollers : PollSeed(p)
    \/ \E p \in Pollers : PollNotify(p)
    \/ \E p \in Pollers : PollMarkSeen(p)
    \/ \E g \in ATSNames : WorkerPoll(g)
    \/ \E g \in ATSNames : WorkerAfterPoll(g)
    \/ \E g \in ATSNames : WorkerMinDelay(g)
    \/ \E g \in ATSNames : WorkerInterval(g)
    \/ RunReturn
    \/ Cancel
    \/ Tick

Spec == Init /\ [][Next]_vars

\* the worker of the group of one poller, alone: the other groups' goroutines
\* have not yet been scheduled
SoloGroup == "microsoft"
SoloNext ==
    \/ PollIsEmpty(Current(SoloGroup))
    \/ PollFetch(Current(SoloGroup))
    \/ PollHasSeen(Current(SoloGroup))
    \/ PollSeed(Current(SoloGroup))
    \/ PollNotify(Current(SoloGroup))
    \/ PollMarkSeen(Current(SoloGroup))
    \/ WorkerPoll(SoloGroup)
    \/ WorkerAfterPoll(SoloGroup)
    \/ WorkerInterval(SoloGroup)
    \/ Cancel
    \/ Tick

SoloSpec == Init /\ [][SoloNext]_vars

(* ------------------------- RetryFetcher.FetchJobs ---------------------- *)

\* time since the last inner call began, once d more has passed (kept up to MinDelay)
Elapse(since, d) ==
    IF since = NoGap THEN NoGap
    ELSE IF since + d > MinDelay THEN MinDelay ELSE since + d

UnchangedButFetch ==
    UNCHANGED <<store, now, cancelled, wpc, widx, polls, runDone, poll, prev, lp, op, pg, sl, ck, rl, wd>>

\* the caller (Poll, under runATSLoop) calls FetchJobs: the first call of the
\* run, or the next one of the group after the min_delay or the interval sleep
RetryStart ==
    /\ rf.pc \in {"idle", "returned"}
    /\ ~cancelled
    /\ \E sleep \in {MinDelay, PollingInterval} :
          rf' = [IdleFetch(rf.maxRetries) EXCEPT
                    !.pc = "call", !.gap = rf.gap,
                    !.since = IF rf.pc = "idle" THEN rf.since ELSE Elapse(rf.since, sleep)]
    /\ UnchangedButFetch

\* FetchJobs returns (how names the return statement taken)
FetchReturn(rec, how, chain) == [rec EXCEPT !.pc = "returned", !.how = how, !.ret = chain]

\* f.inner.FetchJobs(ctx) and what follows it up to the next select or return
RetryCall ==
    /\ rf.pc = "call"
    /\ \E out \in {NoErr} \cup InnerErrors :
       \E js \in IF out = NoErr THEN FetchResults ELSE {<< >>} :
          LET called == [rf EXCEPT !.calls = rf.calls + 1, !.err = out,
                                   !.retryable = IsRetryable(out),
                                   !.gap = rf.since, !.since = 0, !.inner = js]
              failed == [called EXCEPT !.lastErr = out, !.attempt = rf.attempt + 1]
          IN  IF out = NoErr
              THEN rf' = [FetchReturn(called, "ok", << >>) EXCEPT !.jobs = called.inner]
              ELSE IF ~IsRetryable(out) THEN rf' = FetchReturn(called, "fatal", <<out>>)
              ELSE IF ~AttemptsLeft(failed.attempt, rf.maxRetries)
                   THEN rf' = FetchReturn(failed, "exhausted", <<out>>)
              ELSE \E d \in BackoffDelay(failed.attempt, out) :
                      rf' = [failed EXCEPT !.pc = "backoff", !.delay = d]
    /\ UnchangedButFetch

\* return nil, fmt.Errorf("retry cancelled: %w", ctx.Err())
CancelledReturnWithCause(rec) ==
    FetchReturn(rec, "cancelled", <<RetryCancelled, CanceledErr, rec.lastErr>>)
CancelledReturn(rec) == FetchReturn(rec, "cancelled", <<RetryCancelled, CanceledErr>>)

\* select { case <-ctx.Done(): ...; case <-time.After(delay): }
RetryBackoff ==
    /\ rf.pc = "backoff"
    /\ \/ cancelled /\ rf' = CancelledReturn(rf)
       \/ rf' = [rf EXCEPT !.pc = "call", !.since = Elapse(rf.since, rf.delay)]
    /\ UnchangedButFetch

FetchInit ==
    /\ store = EmptyStore
    /\ now = StartHour
    /\ cancelled = FALSE
    /\ wpc = [g \in ATSNames |-> "loop"]
    /\ widx = [g \in ATSNames |-> 1]
    /\ polls = 0
    /\ runDone = FALSE
    /\ poll = [p \in Pollers |-> IdlePoll]
    /\ prev = [p \in Pollers |-> NoPoll]
    /\ rf \in {IdleFetch(n) : n \in 0..MaxRetries}
    /\ lp = IdleLoop
    /\ op = NoOp
    /\ pg = IdlePages
    /\ sl = IdleSlack
    /\ ck = IdleCheck
    /\ rl = IdleLimiter
    /\ wd = NoListing

FetchNext ==
    \/ RetryStart
    \/ RetryCall
    \/ RetryBackoff
    \/ Cancel

FetchSpec == FetchInit /\ [][FetchNext]_vars

(* ------------------- Scheduler, Poll reduced to its outcome ------------- *)

\* rate_limit of the configuration: the global gap and one per-ATS override
ATSOverrides == [a \in {"greenhouse"} |-> 60]
MinDelayFor(ats) == IF ats \in DOMAIN ATSOverrides THEN ATSOverrides[ats] ELSE MinDelay

\* the minDelay NewScheduler was given: cfg.RateLimit.MinDelay
SchedulerMinDelay == MinDelay

UnchangedButLoop ==
    UNCHANGED <<store, now, cancelled, wpc, widx, polls, runDone, poll, prev, rf, op, pg, sl, ck, rl, wd>>

LoopCurrent(g) == GroupByATS(g)[lp.widx[g]]

\* top of the inner loop: if ctx.Err() != nil return; else p.Poll(ctx) begins
LoopWorkerPollOneAtATime(g) ==
    /\ lp.wpc[g] = "loop"
    /\ IF cancelled
       THEN lp' = [lp EXCEPT !.wpc[g] = "exited"]
       ELSE /\ \A p \in Pollers : ~lp.inPoll[p]
            /\ lp' = [lp EXCEPT !.wpc[g] = "polling", !.inPoll[LoopCurrent(g)] = TRUE]
    /\ UnchangedButLoop
LoopWorkerPollUnchecked(g) ==
    /\ lp.wpc[g] = "loop"
    /\ lp' = [lp EXCEPT !.wpc[g] = "polling", !.inPoll[LoopCurrent(g)] = TRUE]
    /\ UnchangedButLoop
LoopWorkerPoll(g) ==
    /\ lp.wpc[g] = "loop"
    /\ IF cancelled
       THEN lp' = [lp EXCEPT !.wpc[g] = "exited"]
       ELSE lp' = [lp EXCEPT !.wpc[g] = "polling", !.inPoll[LoopCurrent(g)] = TRUE]
    /\ UnchangedButLoop

\* where the worker goes once Poll has returned e: the error is only logged
LoopAfterPollReturnOnError(g, e) ==
    IF e # "nil" THEN "exited"
    ELSE IF lp.widx[g] < Len(GroupByATS(g)) THEN "minDelay" ELSE "interval"
LoopAfterPollBreakOnError(g, e) ==
    IF e = "nil" /\ lp.widx[g] < Len(GroupByATS(g)) THEN "minDelay" ELSE "interval"
LoopAfterPoll(g, e) ==
    IF lp.widx[g] < Len(GroupByATS(g)) THEN "minDelay" ELSE "interval"

\* Poll returns nil or an error; the worker logs and goes to sleep
LoopPollReturns(g) ==
    /\ lp.wpc[g] = "polling"
    /\ \E e \in {"nil", "err"} :
          lp' = [lp EXCEPT !.wpc[g] = LoopAfterPoll(g, e),
                           !.inPoll[LoopCurrent(g)] = FALSE,
                           !.last[LoopCurrent(g)] = e,
                           !.pass[g] = Append(@, LoopCurrent(g)),
                           !.slept[g] = IF LoopAfterPoll(g, e) = "minDelay"
                                        THEN SchedulerMinDelay ELSE @]
    /\ UnchangedButLoop

\* case <-ctx.Done(): return, of either sleep
LoopSleepCancelled(g) ==
    /\ lp.wpc[g] \in {"minDelay", "interval"}
    /\ cancelled
    /\ lp' = [lp EXCEPT !.wpc[g] = "exited"]
    /\ UnchangedButLoop

\* case <-time.After(s.minDelay): on to the next poller of the group
LoopMinDelayOver(g) ==
    /\ lp.wpc[g] = "minDelay"
    /\ lp' = [lp EXCEPT !.wpc[g] = "loop", !.widx[g] = @ + 1]
    /\ UnchangedButLoop

\* case <-time.After(s.interval): the next pass begins
LoopIntervalOver(g) ==
    /\ lp.wpc[g] = "interval"
    /\ lp' = [lp EXCEPT !.wpc[g] = "loop", !.widx[g] = 1, !.pass[g] = << >>]
    /\ UnchangedButLoop

\* wg.Wait() is over: Run logs and returns nil
LoopRunReturnEarly ==
    /\ ~lp.done
    /\ \E g \in ATSNames : lp.wpc[g] = "exited"
    /\ lp' = [lp EXCEPT !.done = TRUE]
    /\ UnchangedButLoop
LoopRunReturn ==
    /\ ~lp.done
    /\ \A g \in ATSNames : lp.wpc[g] = "exited"
    /\ lp' = [lp EXCEPT !.done = TRUE]
    /\ UnchangedButLoop

\* the steps of the worker of group g itself, and all of them with Poll's return
LoopWorker(g) ==
    LoopWorkerPoll(g) \/ LoopSleepCancelled(g) \/ LoopMinDelayOver(g) \/ LoopIntervalOver(g)

LoopNext ==
    \/ \E g \in ATSNames : LoopWorkerPoll(g)
    \/ \E g \in ATSNames : LoopPollReturns(g)
    \/ \E g \in ATSNames : LoopSleepCancelled(g)
    \/ \E g \in ATSNames : LoopMinDelayOver(g)
    \/ \E g \in ATSNames : LoopIntervalOver(g)
    \/ LoopRunReturn
    \/ Cancel

LoopSpec == Init /\ [][LoopNext]_vars

\* the goroutine of every group and the one inside Run get to run and their
\* timers fire; whether a Poll call returns is left to the fetcher and the
\* notifier
FairLoopSpec ==
    /\ LoopSpec
    /\ \A g \in ATSNames : WF_vars(LoopWorker(g))
    /\ WF_vars(LoopRunReturn)

(* ------------------------------ SQLiteStore ---------------------------- *)

\* the job ids and the olderThan durations (hours) the store is called with
StoreIds == {"1", "2"}
OlderThans == {0, 1}

UnchangedButStore ==
    UNCHANGED <<now, cancelled, wpc, widx, polls, runDone, poll, prev, rf, lp, pg, sl, ck, rl, wd>>

\* s.MarkSeen(jobID)
StoreMarkSeen ==
    /\ \E id \in StoreIds :
          /\ store' = MarkSeen(store, id, now)
          /\ op' = [op EXCEPT !.name = "MarkSeen", !.id = id, !.before = store,
                              !.err = MarkSeenErr(store, id)]
    /\ UnchangedButStore

\* s.HasSeen(jobID)
StoreHasSeen ==
    /\ \E id \in StoreIds :
          op' = [op EXCEPT !.name = "HasSeen", !.id = id, !.before = store,
                           !.seen = HasSeen(store, id), !.err = "nil"]
    /\ UNCHANGED store
    /\ UnchangedButStore

\* s.IsEmpty()
StoreIsEmpty ==
    /\ op' = [op EXCEPT !.name = "IsEmpty", !.before = store,
                        !.seen = IsEmpty(store), !.err = "nil"]
    /\ UNCHANGED store
    /\ UnchangedButStore

\* s.Cleanup(olderThan)
StoreCleanup ==
    /\ \E d \in OlderThans :
          /\ store' = Cleanup(store, now, d, op.zone)
          /\ op' = [op EXCEPT !.name = "Cleanup", !.olderThan = d, !.before = store,
                              !.err = "nil"]
    /\ UnchangedButStore

\* a fresh database, opened by a process in any zone
StoreInit ==
    /\ store = EmptyStore
    /\ now = StartHour
    /\ cancelled = FALSE
    /\ wpc = [g \in ATSNames |-> "loop"]
    /\ widx = [g \in ATSNames |-> 1]
    /\ polls = 0
    /\ runDone = FALSE
    /\ poll = [p \in Pollers |-> IdlePoll]
    /\ prev = [p \in Pollers |-> NoPoll]
    /\ rf = IdleFetch(MaxRetries)
    /\ lp = IdleLoop
    /\ op \in {[NoOp EXCEPT !.zone = z] : z \in ZoneOffsets}
    /\ pg = IdlePages
    /\ sl = IdleSlack
    /\ ck = IdleCheck
    /\ rl = IdleLimiter
    /\ wd = NoListing

StoreNext ==
    \/ StoreMarkSeen
    \/ StoreHasSeen
    \/ StoreIsEmpty
    \/ StoreCleanup
    \/ Tick

StoreSpec == StoreInit /\ [][StoreNext]_vars

(* ------------------------- paginating adapters ------------------------- *)

\* cap on the pages the Microsoft adapter fetches in audit mode
MicrosoftAuditMaxPages == 20

\* a page of the upstream listing: per entry, whether its posting is fresh
\* (isFreshPosting; PostedTs after the cutoff)
Page == [1..PageLen -> BOOLEAN]

\* the listings an upstream may hold: one to MaxPages full pages
Upstreams == UNION {[1..n -> Page] : n \in 1..MaxPages}

\* Workday: the last listing of the page is stale
WorkdayStops(page) == Len(page) > 0 /\ ~page[Len(page)]

\* Microsoft: no position of the page is fresh
MicrosoftStops(page) == \A i \in 1..Len(page) : ~page[i]

\* the early exit of the page loop, skipped in audit mode
EarlyExit(adapter, audit, page) ==
    /\ ~audit
    /\ IF adapter = "workday" THEN WorkdayStops(page) ELSE MicrosoftStops(page)

\* the loop's end: the offset has reached the total, or the audit cap
Exhausted(adapter, audit, n, pages) ==
    \/ n * PageLen >= Len(pages) * PageLen
    \/ adapter = "microsoft" /\ audit /\ n * PageLen >= MicrosoftAuditMaxPages * PageLen

UnchangedButPages ==
    UNCHANGED <<store, now, cancelled, wpc, widx, polls, runDone, poll, prev, rf, lp, op, sl, ck, rl, wd>>

\* one iteration of the page loop: fetch the page at the offset, append it,
\* break on the early exit, advance the offset, break when exhausted
PageFetch ==
    /\ pg.pc = "fetching"
    /\ LET page == pg.pages[pg.n + 1]
       IN  pg' = [pg EXCEPT !.n = pg.n + 1,
                            !.pc = IF \/ EarlyExit(pg.adapter, pg.audit, page)
                                      \/ Exhausted(pg.adapter, pg.audit, pg.n + 1, pg.pages)
                                   THEN "done" ELSE "fetching"]
    /\ UnchangedButPages

\* an adapter of either kind, in either mode, about to list some upstream
PageInit ==
    /\ store = EmptyStore
    /\ now = StartHour
    /\ cancelled = FALSE
    /\ wpc = [g \in ATSNames |-> "loop"]
    /\ widx = [g \in ATSNames |-> 1]
    /\ polls = 0
    /\ runDone = FALSE
    /\ poll = [p \in Pollers |-> IdlePoll]
    /\ prev = [p \in Pollers |-> NoPoll]
    /\ rf = IdleFetch(MaxRetries)
    /\ lp = IdleLoop
    /\ op = NoOp
    /\ pg \in {[adapter |-> a, audit |-> m, pages |-> u, n |-> 0, pc |-> "fetching"] :
                  a \in {"workday", "microsoft"}, m \in BOOLEAN, u \in Upstreams}
    /\ sl = IdleSlack
    /\ ck = IdleCheck
    /\ rl = IdleLimiter
    /\ wd = NoListing

PageNext == PageFetch

PageSpec == PageInit /\ [][PageNext]_vars

(* ---------------------------- SlackNotifier ---------------------------- *)

\* what a POST to the webhook can give: a status, or a transport error
SlackReplies == {"200", "429", "500", "err"}

\* the batches Notify is called with: job ids, a job may come twice
SlackJobs == {"1", "2"}
Batches == UNION {[1..n -> SlackJobs] : n \in 0..MaxBatch}

\* sendMessage: one POST, and one more after a 429; ok iff the last reply is 200
SendMessage(first, second) ==
    IF first = "429" THEN [ok |-> second = "200", posts |-> 2]
    ELSE [ok |-> first = "200", posts |-> 1]

\* Notify's result once the loop is over
NotifyResultAnyFailure(failures, n) == IF failures > 0 THEN "error" ELSE "nil"
NotifyResult(failures, n) == IF failures = n THEN "error" ELSE "nil"

UnchangedButSlack ==
    UNCHANGED <<store, now, cancelled, wpc, widx, polls, runDone, poll, prev, rf, lp, op, pg, ck, rl, wd>>

\* if len(jobs) == 0 { return nil }; failures := 0
NotifyBegin ==
    /\ sl.pc = "notify"
    /\ sl' = IF Len(sl.jobs) = 0
             THEN [sl EXCEPT !.pc = "returned", !.ret = "nil"]
             ELSE [sl EXCEPT !.pc = "send"]
    /\ UnchangedButSlack

\* one iteration of the loop: (sleep,) sendMessage(j), count a failure; after
\* the last one the result
NotifySend ==
    /\ sl.pc = "send"
    /\ \E first \in SlackReplies : \E second \in SlackReplies :
          LET r == SendMessage(first, second)
              failures == IF r.ok THEN sl.failures ELSE sl.failures + 1
              sent == Append(sl.sent, [job |-> sl.jobs[sl.i], ok |-> r.ok, posts |-> r.posts])
          IN  sl' = IF sl.i = Len(sl.jobs)
                    THEN [sl EXCEPT !.pc = "returned", !.failures = failures, !.sent = sent,
                                    !.ret = NotifyResult(failures, Len(sl.jobs))]
                    ELSE [sl EXCEPT !.i = sl.i + 1, !.failures = failures, !.sent = sent]
    /\ UnchangedButSlack

\* Notify is called with some batch
SlackInit ==
    /\ store = EmptyStore
    /\ now = StartHour
    /\ cancelled = FALSE
    /\ wpc = [g \in ATSNames |-> "loop"]
    /\ widx = [g \in ATSNames |-> 1]
    /\ polls = 0
    /\ runDone = FALSE
    /\ poll = [p \in Pollers |-> IdlePoll]
    /\ prev = [p \in Pollers |-> NoPoll]
    /\ rf = IdleFetch(MaxRetries)
    /\ lp = IdleLoop
    /\ op = NoOp
    /\ pg = IdlePages
    /\ sl \in {[IdleSlack EXCEPT !.pc = "notify", !.jobs = b] : b \in Batches}
    /\ ck = IdleCheck
    /\ rl = IdleLimiter
    /\ wd = NoListing

SlackNext ==
    \/ NotifyBegin
    \/ NotifySend

SlackSpec == SlackInit /\ [][SlackNext]_vars

\* Poll after p.notifier.Notify(newJobs) with the SlackNotifier: an error ends
\* Poll with nothing committed; else the commit loop calls MarkSeen for the
\* identifiers of the batch in order, up to the first MarkSeen that fails
RECURSIVE MarkSeenAll(_, _, _)
MarkSeenAll(s, ids, t) ==
    IF Len(ids) = 0 THEN s ELSE MarkSeenAll(MarkSeen(s, ids[1], t), Tail(ids), t)

SlackPollCommit ==
    /\ sl.pc = "returned"
    /\ IF sl.ret = "error"
       THEN /\ sl' = [sl EXCEPT !.pc = "pollError"]
            /\ UNCHANGED store
       ELSE \E n \in 0..Len(sl.jobs) :
               /\ store' = MarkSeenAll(store, SubSeq(sl.jobs, 1, n), now)
               /\ sl' = [sl EXCEPT !.pc = IF n = Len(sl.jobs) THEN "committed"
                                          ELSE "commitError"]
    /\ UNCHANGED <<now, cancelled, wpc, widx, polls, runDone, poll, prev, rf, lp, op, pg, ck,
                   rl, wd>>

SlackPollNext ==
    \/ NotifyBegin
    \/ NotifySend
    \/ SlackPollCommit

SlackPollSpec == SlackInit /\ [][SlackPollNext]_vars

(* ---------------------------- check command ---------------------------- *)

\* NopStore: IsEmpty and HasSeen answer false, MarkSeen does nothing
NopIsEmpty(s) == FALSE
NopHasSeen(s, id) == FALSE
NopMarkSeenWrites(s, id, t) == MarkSeen(s, id, t)
NopMarkSeen(s, id, t) == s

UnchangedButCheck ==
    UNCHANGED <<now, cancelled, wpc, widx, polls, runDone, poll, prev, rf, lp, op, pg, sl,
                rl, wd>>

CheckStep(rec) == ck' = [ck EXCEPT !.rec = rec]

\* for _, p := range pollers: skip an ATS already tested, else p.Poll(ctx);
\* after the loop, "check complete" and return nil
CheckLoop ==
    /\ ck.pc = "loop"
    /\ ck' = IF ck.i > Len(Companies) THEN [ck EXCEPT !.pc = "done"]
             ELSE IF Companies[ck.i].ats \in ck.seen THEN [ck EXCEPT !.i = ck.i + 1]
             ELSE [ck EXCEPT !.pc = "polling", !.seen = @ \cup {Companies[ck.i].ats},
                             !.rec = [IdlePoll EXCEPT !.pc = "isEmpty"]]
    /\ UNCHANGED store
    /\ UnchangedButCheck

\* Poll on the NopStore: firstRun, err := p.store.IsEmpty()
CheckIsEmpty ==
    /\ ck.pc = "polling" /\ ck.rec.pc = "isEmpty"
    /\ CheckStep([ck.rec EXCEPT !.pc = "fetch", !.probed = TRUE,
                                !.firstRun = NopIsEmpty(store)])
    /\ UNCHANGED store
    /\ UnchangedButCheck

\* Poll on the NopStore: the fetch and the filter loop
CheckFetch ==
    /\ ck.pc = "polling" /\ ck.rec.pc = "fetch"
    /\ \/ CheckStep(FetchFailed(ck.rec))
       \/ \E r \in Responses(ck.i) :
             CheckStep(AfterFilter([ck.rec EXCEPT
                          !.fetched = "ok", !.jobs = r,
                          !.matched = Matched(r, ck.rec.firstRun, now)]))
    /\ UNCHANGED store
    /\ UnchangedButCheck

\* Poll on the NopStore: one iteration of the dedup loop
CheckHasSeen ==
    LET rec == ck.rec
        job == rec.matched[rec.k]
        kept == IF NopHasSeen(store, job.id) THEN rec.newJobs ELSE Append(rec.newJobs, job)
        nxt == [rec EXCEPT !.newJobs = kept, !.k = rec.k + 1]
    IN  /\ ck.pc = "polling" /\ rec.pc = "hasSeen"
        /\ CheckStep(IF rec.k = Len(rec.matched) THEN AfterDedup(nxt) ELSE nxt)
        /\ UNCHANGED store
        /\ UnchangedButCheck

\* Poll on the NopStore: p.notifier.Notify(newJobs)
CheckNotify ==
    LET rec == ck.rec
    IN  /\ ck.pc = "polling" /\ rec.pc = "notify"
        /\ \/ CheckStep([rec EXCEPT !.pc = "markSeen", !.k = 1,
                           !.notify = Append(rec.notify, [batch |-> rec.newJobs, ok |-> TRUE])])
           \/ CheckStep(NotifyFailed(rec, [batch |-> rec.newJobs, ok |-> FALSE]))
        /\ UNCHANGED store
        /\ UnchangedButCheck

\* Poll on the NopStore: one iteration of a commit loop, p.store.MarkSeen(job.ID)
CheckMarkSeen ==
    LET rec == ck.rec
        id  == rec.newJobs[rec.k].id
        nxt == [rec EXCEPT !.commits = Append(rec.commits, id), !.k = rec.k + 1]
    IN  /\ ck.pc = "polling" /\ rec.pc \in {"seed", "markSeen"}
        /\ store' = NopMarkSeen(store, id, now)
        /\ CheckStep(IF rec.k = Len(rec.newJobs) THEN Return(nxt, "nil") ELSE nxt)
        /\ UnchangedButCheck

\* Poll has returned: log the error if any, on to the next poller
CheckAfterPoll ==
    /\ ck.pc = "polling" /\ ck.rec.pc = "returned"
    /\ ck' = [ck EXCEPT !.pc = "loop", !.i = ck.i + 1, !.rec = IdlePoll,
                        !.polled = Append(@, [p |-> ck.i, firstRun |-> ck.rec.firstRun,
                                              err |-> ck.rec.err, notify |-> ck.rec.notify,
                                              commits |-> ck.rec.commits])]
    /\ UNCHANGED store
    /\ UnchangedButCheck

\* the seen-set files the command may find: none yet, or the daemon's
DiskStores == {EmptyStore, MarkSeen(EmptyStore, "1", StartHour)}

\* firstin check starts, pollers built on store.NewNopStore()
CheckInit ==
    /\ store \in DiskStores
    /\ now = StartHour
    /\ cancelled = FALSE
    /\ wpc = [g \in ATSNames |-> "loop"]
    /\ widx = [g \in ATSNames |-> 1]
    /\ polls = 0
    /\ runDone = FALSE
    /\ poll = [p \in Pollers |-> IdlePoll]
    /\ prev = [p \in Pollers |-> NoPoll]
    /\ rf = IdleFetch(MaxRetries)
    /\ lp = IdleLoop
    /\ op = NoOp
    /\ pg = IdlePages
    /\ sl = IdleSlack
    /\ ck = [IdleCheck EXCEPT !.pc = "loop", !.disk = store]
    /\ rl = IdleLimiter
    /\ wd = NoListing

CheckNext ==
    \/ CheckLoop
    \/ CheckIsEmpty
    \/ CheckFetch
    \/ CheckHasSeen
    \/ CheckNotify
    \/ CheckMarkSeen
    \/ CheckAfterPoll
    \/ Tick

CheckSpec == CheckInit /\ [][CheckNext]_vars

(* ---------------------------- ATSRateLimiter --------------------------- *)

\* ATSRateLimiter.minDelay, in instants of the limiter's clock
WaitMinDelay == 2

UnchangedButLimiter ==
    UNCHANGED <<store, now, cancelled, wpc, widx, polls, runDone, poll, prev, rf, lp, op, pg,
                sl, ck, wd>>

\* Wait returns nil to goroutine g at the present instant: the bookkeeping of
\* nil returns per ATS
ReturnNil(r, g, ats) ==
    LET d == r.clock - r.lastRet[ats]
    IN  [r EXCEPT !.call[g] = [pc |-> "returned", ats |-> ats, wake |-> r.call[g].wake,
                               ret |-> "nil", at |-> r.clock],
                  !.lastRet[ats] = r.clock,
                  !.gap[ats] = IF r.lastRet[ats] = NoTime THEN @
                               ELSE IF @ = NoTime \/ d < @ THEN d ELSE @]

\* Wait up to its first Unlock, one critical section: no entry or enough time
\* elapsed, then record now and return nil; else leave the lock and start the
\* timer for the remainder
WaitEnter(g, ats) ==
    /\ rl.call[g].pc \in {"idle", "returned"}
    /\ LET last    == rl.lastCall[ats]
           elapsed == rl.clock - last
       IN  IF last = NoTime \/ elapsed >= WaitMinDelay
           THEN rl' = ReturnNil([rl EXCEPT !.lastCall[ats] = rl.clock,
                                           !.call[g].wake = NoTime], g, ats)
           ELSE rl' = [rl EXCEPT !.call[g] = [pc |-> "sleeping", ats |-> ats,
                                              wake |-> rl.clock + (WaitMinDelay - elapsed),
                                              ret |-> "none", at |-> NoTime]]
    /\ UnchangedButLimiter

\* case <-time.After(remaining): then lastCall[ats] = time.Now() under the lock, return nil
WaitWake(g) ==
    /\ rl.call[g].pc = "sleeping"
    /\ rl.clock >= rl.call[g].wake
    /\ rl' = ReturnNil([rl EXCEPT !.lastCall[rl.call[g].ats] = rl.clock], g, rl.call[g].ats)
    /\ UnchangedButLimiter

\* case <-ctx.Done(): return the wrapped ctx.Err()
WaitCancelled(g) ==
    /\ rl.call[g].pc = "sleeping"
    /\ cancelled
    /\ rl' = [rl EXCEPT !.call[g].pc = "returned", !.call[g].ret = "err",
                        !.call[g].at = rl.clock]
    /\ UnchangedButLimiter

\* an instant passes
WaitTick ==
    /\ rl.clock < MaxClock
    /\ rl' = [rl EXCEPT !.clock = @ + 1]
    /\ UnchangedButLimiter

WaitNext ==
    \/ \E g \in Callers, ats \in ATSNames : WaitEnter(g, ats)
    \/ \E g \in Callers : WaitWake(g)
    \/ \E g \in Callers : WaitCancelled(g)
    \/ WaitTick
    \/ Cancel

WaitSpec == Init /\ [][WaitNext]_vars

(* ---------------------------- WorkdayAdapter --------------------------- *)

\* the texts of a listing and of its detail response; "2" is a digit and "L"
\* stands for the word " Locations" or " Location", ";" for the separator "; "
WorkdayTitles == {<<"E", "n", "g">>, <<"m", "g", "r">>}
ListingLocations == {<<"r", "m">>, <<"e">>, <<"2", "L">>, <<"2", "L", "r", "m">>}
DetailLocations == {<<"r", "m">>, <<"e">>}
WorkdayListings == [title : WorkdayTitles, locationsText : ListingLocations, fresh : BOOLEAN]
WorkdayDetails ==
    [title : WorkdayTitles, location : DetailLocations,
     additionalLocations : {<< >>, << <<"r", "m">> >>, << <<"e">> >>}]

\* ambiguousLocationRegex ^\d+ Locations?$, matched against the whole text
isAmbiguousLocation(loc) ==
    /\ Len(loc) >= 2
    /\ loc[Len(loc)] = "L"
    /\ \A i \in 1..(Len(loc) - 1) : loc[i] = "2"

\* listingPassesPreFilter without the ambiguity rule
listingPassesPreFilterOnText(preFilter, l) ==
    IF ~preFilter THEN TRUE
    ELSE Match([title |-> l.title, location |-> l.locationsText])

\* listingPassesPreFilter: no filter injected or an ambiguous location text
\* passes; else the filter decides on the listing's title and location text
listingPassesPreFilter(preFilter, l) ==
    IF ~preFilter THEN TRUE
    ELSE IF isAmbiguousLocation(l.locationsText) THEN TRUE
    ELSE Match([title |-> l.title, location |-> l.locationsText])

\* strings.Join(additionalLocations, "; ")
RECURSIVE JoinLocations(_)
JoinLocations(locs) ==
    IF Len(locs) = 0 THEN << >>
    ELSE IF Len(locs) = 1 THEN locs[1]
    ELSE locs[1] \o <<";">> \o JoinLocations(Tail(locs))

\* fetchDetail: the job built from the detail response
fetchDetail(info) ==
    [title |-> info.title,
     location |-> IF Len(info.additionalLocations) > 0
                  THEN info.location \o <<";">> \o JoinLocations(info.additionalLocations)
                  ELSE info.location,
     detail |-> TRUE]

\* jobFromListing: the job built from listing-level data
jobFromListing(l) == [title |-> l.title, location |-> l.locationsText, detail |-> FALSE]

\* the loop body of FetchJobs on one listing: what FetchJobs returns and
\* whether the detail request was made
WorkdayFetchJobs(l, info, detailErr, preFilter, auditMode) ==
    IF ~l.fresh /\ ~auditMode
    THEN [err |-> "nil", jobs |-> << >>, detailFetched |-> FALSE]
    ELSE IF l.fresh /\ ~listingPassesPreFilter(preFilter, l)
    THEN [err |-> "nil", jobs |-> << >>, detailFetched |-> FALSE]
    ELSE IF l.fresh
    THEN IF detailErr THEN [err |-> "err", jobs |-> << >>, detailFetched |-> TRUE]
         ELSE [err |-> "nil", jobs |-> <<fetchDetail(info)>>, detailFetched |-> TRUE]
    ELSE [err |-> "nil", jobs |-> <<jobFromListing(l)>>, detailFetched |-> FALSE]

\* Poll's filter loop over what FetchJobs returned; a fetch error ends Poll
PollMatched(fetched) ==
    IF fetched.err # "nil" THEN << >> ELSE SelectSeq(fetched.jobs, Match)

UnchangedButWorkday ==
    UNCHANGED <<store, now, cancelled, wpc, widx, polls, runDone, poll, prev, rf, lp, op, pg,
                sl, ck, rl>>

\* WorkdayAdapter.FetchJobs
WorkdayFetch ==
    /\ wd.pc = "ready"
    /\ LET r == WorkdayFetchJobs(wd.listing, wd.detail, wd.detailErr, wd.preFilter,
                                 wd.auditMode)
       IN  wd' = [wd EXCEPT !.pc = "fetched", !.err = r.err, !.jobs = r.jobs,
                            !.detailFetched = r.detailFetched]
    /\ UnchangedButWorkday

\* the poller's filter on the jobs the adapter returned
WorkdayPollFilter ==
    /\ wd.pc = "fetched"
    /\ wd' = [wd EXCEPT !.pc = "done",
                        !.matched = PollMatched([err |-> wd.err, jobs |-> wd.jobs])]
    /\ UnchangedButWorkday

WorkdayInit ==
    /\ store = EmptyStore
    /\ now = StartHour
    /\ cancelled = FALSE
    /\ wpc = [g \in ATSNames |-> "loop"]
    /\ widx = [g \in ATSNames |-> 1]
    /\ polls = 0
    /\ runDone = FALSE
    /\ poll = [p \in Pollers |-> IdlePoll]
    /\ prev = [p \in Pollers |-> NoPoll]
    /\ rf = IdleFetch(MaxRetries)
    /\ lp = IdleLoop
    /\ op = NoOp
    /\ pg = IdlePages
    /\ sl = IdleSlack
    /\ ck = IdleCheck
    /\ rl = IdleLimiter
    /\ \E l \in WorkdayListings, info \in WorkdayDetails, e \in BOOLEAN, f \in BOOLEAN,
          a \in BOOLEAN :
          wd = [NoListing EXCEPT !.pc = "ready", !.listing = l, !.detail = info,
                                 !.detailErr = e, !.preFilter = f, !.auditMode = a]

WorkdayNext ==
    \/ WorkdayFetch
    \/ WorkdayPollFilter

WorkdaySpec == WorkdayInit /\ [][WorkdayNext]_vars

(* ------------------------------- claims -------------------------------- *)

Returned(p) == poll[p].pc = "returned"
Seeding(p) == poll[p].probed /\ poll[p].firstRun
NonSeeding(p) == poll[p].probed /\ ~poll[p].firstRun
Range(seq) == {seq[i] : i \in 1..Len(seq)}
Ids(seq) == {seq[i].id : i \in 1..Len(seq)}
Committed(id) == id \in DOMAIN store

C2_CommitAfterNotify ==
    \A p \in Pollers :
        poll[p].commits # << >> =>
            IF poll[p].firstRun
            THEN poll[p].notify = << >>
            ELSE /\ Len(poll[p].notify) = 1
                 /\ poll[p].notify[1].ok
                 /\ Range(poll[p].commits) \subseteq Ids(poll[p].notify[1].batch)

C2_Witness ==
    \E p \in Pollers : NonSeeding(p) /\ Len(poll[p].commits) = 2

NotifyFailedIn(rec) == rec.notify # << >> /\ ~rec.notify[1].ok

Delivered(rec) == IF rec.notify = << >> THEN << >> ELSE rec.notify[1].batch

C4_FetchErrorNoEffects ==
    \A p \in Pollers :
        (Returned(p) /\ poll[p].fetched = "err") =>
            /\ poll[p].err # "nil"
            /\ poll[p].notify = << >>
            /\ poll[p].commits = << >>

C4_Witness ==
    \E p \in Pollers :
        Returned(p) /\ poll[p].fetched = "err" /\ NonSeeding(p)

\* C5 as stated: whenever a non-seeding cycle is about to hand its batch to the
\* notifier, none of the batch's identifiers is in the store, whatever the
\* other pollers sharing the store did since this cycle's HasSeen calls.
C5_UnseenAtDelivery ==
    \A p \in Pollers :
        poll[p].pc = "notify" =>
            \A j \in Range(poll[p].newJobs) : ~Committed(j.id)

\* C6 as stated: started against an empty store, no poller calls the notifier
\* in its first Poll cycle, in whatever order the pollers run.
C6_FirstCycleSilent ==
    \A p \in Pollers : ~prev[p].ran => poll[p].notify = << >>

\* the previous cycle of p delivered a batch and committed every identifier
DeliveredAndCommitted(p) ==
    /\ prev[p].ran /\ prev[p].ok
    /\ prev[p].notify # << >> /\ prev[p].notify[1].ok

\* C7: the cycle after one whose Notify and commits all succeeded, fetching the
\* same response, hands nothing to the notifier.
C7_RepollDeliversNothing ==
    \A p \in Pollers :
        (DeliveredAndCommitted(p) /\ poll[p].fetched = "ok"
            /\ poll[p].jobs = prev[p].jobs) => poll[p].notify = << >>

C7_Witness ==
    \E p \in Pollers :
        /\ DeliveredAndCommitted(p) /\ Len(prev[p].notify[1].batch) = 2
        /\ Returned(p) /\ poll[p].err = "nil"
        /\ poll[p].fetched = "ok" /\ poll[p].jobs = prev[p].jobs

\* no poller other than p has committed anything
OthersSilent(p) ==
    \A q \in Pollers \ {p} : poll[q].commits = << >> /\ ~prev[q].wrote

\* p has run two consecutive cycles without error, the first from an empty
\* store, both fetching the same response, while no other poller committed
TwoCyclesFromEmpty(p) ==
    /\ prev[p].ran /\ prev[p].firstRun /\ prev[p].fetched = "ok" /\ prev[p].ok
    /\ Returned(p) /\ poll[p].err = "nil"
    /\ poll[p].fetched = "ok" /\ poll[p].jobs = prev[p].jobs
    /\ OthersSilent(p)

\* C8 as stated: after two such cycles the store holds exactly the identifiers
\* the fetcher returned and the notifier got no call.
C8_StoreHoldsFetchedIds ==
    \A p \in Pollers :
        TwoCyclesFromEmpty(p) =>
            /\ DOMAIN store = Ids(poll[p].jobs)
            /\ prev[p].notify = << >> /\ poll[p].notify = << >>

\* C8 amended: after two such cycles the store holds exactly the identifiers
\* of the fetched jobs that the filter accepts, and the notifier got no call.
C8_StoreHoldsAcceptedIds ==
    \A p \in Pollers :
        TwoCyclesFromEmpty(p) =>
            /\ DOMAIN store = {j.id : j \in {x \in Range(poll[p].jobs) : Match(x)}}
            /\ prev[p].notify = << >> /\ poll[p].notify = << >>

C8_Witness ==
    \E p \in Pollers :
        /\ TwoCyclesFromEmpty(p)
        /\ \E j \in Range(poll[p].jobs) : Match(j)
        /\ \E j \in Range(poll[p].jobs) : ~Match(j)
        /\ ~poll[p].firstRun

\* C9: a seeding cycle that fetched no job commits nothing, so the store stays
\* empty unless another poller wrote to it; and as long as the store is empty
\* every cycle that has probed it is a seeding cycle, with no notifier call.
C9_EmptyFetchKeepsSeeding ==
    \A p \in Pollers :
        /\ (Returned(p) /\ Seeding(p) /\ poll[p].fetched = "ok" /\ poll[p].jobs = << >>) =>
              /\ poll[p].commits = << >>
              /\ OthersSilent(p) => DOMAIN store = {}
        /\ (DOMAIN store = {} /\ poll[p].probed) =>
              poll[p].firstRun /\ poll[p].notify = << >>

C9_Witness ==
    \E p \in Pollers :
        /\ prev[p].ran /\ prev[p].firstRun /\ prev[p].fetched = "ok" /\ prev[p].jobs = << >>
        /\ DOMAIN store = {}
        /\ Seeding(p) /\ poll[p].pc = "seed"

\* what the freshness gate of C10 lets through, for the window maxAge
FreshUnder(jobs, firstRun, t, maxAge) ==
    SelectSeq(jobs, LAMBDA j :
        Match(j) /\ ~(~firstRun /\ j.postedAt # NoTime /\ j.postedAt < t - maxAge))

\* C10 as stated: whatever window in [1h, 24h] the config gives the poller, the
\* filter loop of a non-seeding cycle drops a filter-accepted job exactly when
\* its posted_at is present and older than now - max_age, and the filter loop
\* of a seeding cycle drops no filter-accepted job.
C10_GateUsesConfiguredWindow ==
    [][\A p \in Pollers :
         (poll[p].pc = "fetch" /\ poll'[p].fetched = "ok") =>
            \A maxAge \in {h \in 0..(MaxMaxAge + 1) : ValidMaxAge(h)} :
                poll'[p].matched = FreshUnder(poll'[p].jobs, poll[p].firstRun, now, maxAge)]_vars

\* C11 as stated: whatever window in [1h, 24h] the config gives the poller, a
\* filter-accepted job fetched on a non-seeding cycle whose posted_at equals
\* now - max_age passes the freshness gate.
C11_CutoffItselfIsFresh ==
    [][\A p \in Pollers :
         (poll[p].pc = "fetch" /\ poll'[p].fetched = "ok" /\ ~poll[p].firstRun) =>
            \A maxAge \in {h \in 0..(MaxMaxAge + 1) : ValidMaxAge(h)} :
                \A j \in Range(poll'[p].jobs) :
                    (Match(j) /\ j.postedAt # NoTime /\ j.postedAt = now - maxAge)
                        => j \in Range(poll'[p].matched)]_vars

\* the fetched jobs that the filter accepts and that carry no posted_at
Undated(rec) == {j \in Range(rec.jobs) : Match(j) /\ j.postedAt = NoTime}

\* C12: on a non-seeding cycle every filter-accepted job without posted_at
\* passes the freshness gate; those still unseen are in the batch the cycle
\* hands to the notifier, and a cycle that ends without a notifier call had
\* seen them all.
C12_UndatedJobIsDelivered ==
    \A p \in Pollers :
        (NonSeeding(p) /\ poll[p].fetched = "ok") =>
            /\ Undated(poll[p]) \subseteq Range(poll[p].matched)
            /\ poll[p].pc = "notify" =>
                  \A j \in Undated(poll[p]) : ~Committed(j.id) => j \in Range(poll[p].newJobs)
            /\ poll[p].notify # << >> =>
                  \A j \in Undated(poll[p]) :
                      j \in Range(poll[p].notify[1].batch) \/ Committed(j.id)
            /\ (Returned(p) /\ poll[p].err = "nil" /\ poll[p].notify = << >>) =>
                  \A j \in Undated(poll[p]) : Committed(j.id)

C12_Witness ==
    \E p \in Pollers :
        /\ NonSeeding(p) /\ now = MaxNow
        /\ poll[p].notify # << >>
        /\ \E j \in Range(poll[p].notify[1].batch) : j.postedAt = NoTime
        /\ \E j \in Range(poll[p].jobs) : Match(j) /\ j \notin Range(poll[p].matched)

\* the fetched jobs that the filter accepts
Accepted(jobs) == SelectSeq(jobs, Match)

\* C13: in every cycle the batch handed to the notifier is no longer than the
\* list of filter-accepted jobs, which is no longer than the fetched list.
C13_DeliveredAcceptedFetched ==
    \A p \in Pollers :
        /\ Len(Delivered(poll[p])) <= Len(Accepted(poll[p].jobs))
        /\ Len(Accepted(poll[p].jobs)) <= Len(poll[p].jobs)

C13_Witness ==
    \E p \in Pollers :
        /\ Len(Delivered(poll[p])) = 1
        /\ Len(Accepted(poll[p].jobs)) = 1
        /\ Len(poll[p].jobs) = 2

\* sub is what is left of seq, in seq's order, when some of its entries go
SubsequenceOf(sub, seq) ==
    \E f \in [1..Len(sub) -> 1..Len(seq)] :
        /\ \A i \in 1..Len(sub) : sub[i] = seq[f[i]]
        /\ \A i, j \in 1..Len(sub) : i < j => f[i] < f[j]

\* C14: a non-seeding cycle calls the notifier at most once, never with an
\* empty batch, and the batch is the fetched list, in the adapter's order,
\* cut down to the jobs that passed filter, freshness gate and dedup.
C14_OneBatchInAdapterOrder ==
    \A p \in Pollers :
        NonSeeding(p) =>
            /\ Len(poll[p].notify) <= 1
            /\ SubsequenceOf(poll[p].matched, poll[p].jobs)
            /\ \A j \in Range(poll[p].matched) : Match(j)
            /\ poll[p].notify # << >> =>
                  /\ poll[p].notify[1].batch # << >>
                  /\ SubsequenceOf(poll[p].notify[1].batch, poll[p].matched)
                  /\ \A j \in Range(poll[p].matched) :
                        j \in Range(poll[p].notify[1].batch) \/ Committed(j.id)
            /\ (Returned(p) /\ poll[p].err = "nil" /\ poll[p].notify = << >>) =>
                  \A j \in Range(poll[p].matched) : Committed(j.id)

C14_Witness ==
    \E p \in Pollers :
        /\ NonSeeding(p) /\ poll[p].notify # << >>
        /\ Len(poll[p].notify[1].batch) = 2
        /\ poll[p].notify[1].batch[1] # poll[p].notify[1].batch[2]
        /\ poll[p].notify[1].batch = poll[p].jobs

\* the classification C16 gives: plain errors other than cancellation or
\* deadline, and transport errors with status 429 or at least 500
ClaimedRetryable(e) ==
    \/ e.kind = "plain"
    \/ e.kind = "http" /\ (e.status = 429 \/ e.status >= 500)

\* C15: one FetchJobs call of a RetryFetcher with N retries calls the wrapped
\* fetcher at most N+1 times; when its last attempt too failed with a
\* retryable error and nothing was cancelled, it has made exactly N+1 calls
\* and returns an error.
C15_AtMostNPlusOneAttempts ==
    /\ rf.calls <= rf.maxRetries + 1
    /\ (rf.pc = "returned" /\ ClaimedRetryable(rf.err) /\ ~cancelled) =>
          rf.calls = rf.maxRetries + 1 /\ rf.ret # << >>

C15_Witness ==
    /\ rf.pc = "returned" /\ ~cancelled
    /\ rf.maxRetries = MaxRetries /\ rf.calls = MaxRetries + 1
    /\ ClaimedRetryable(rf.err)

\* C16: FetchJobs treats the error of an attempt as retryable exactly when it
\* is a plain error that is no cancellation or deadline error, or a transport
\* error with status 429 or >= 500; on any other error it returns that error
\* at once, and on a retryable one with attempts left it sleeps and calls again
\* unless cancelled.
C16_RetryClassification ==
    (rf.calls > 0 /\ rf.err # NoErr) =>
        /\ rf.retryable <=> ClaimedRetryable(rf.err)
        /\ ~ClaimedRetryable(rf.err) => rf.pc = "returned" /\ rf.ret = <<rf.err>>
        /\ (ClaimedRetryable(rf.err) /\ rf.calls <= rf.maxRetries) =>
              rf.pc \in {"backoff", "call"} \/ rf.how = "cancelled"

C16_Witness ==
    /\ rf.pc = "backoff" /\ rf.err = HTTPError(429, 0)
    /\ rf.calls = 2

\* C17: the backoff sleep equals the server-requested delay when the last
\* failed attempt is a transport error carrying a positive one; otherwise it
\* is base * 2^(attempt-1) scaled by a factor between 0.7 and 1.3.
C17_BackoffDelay ==
    rf.pc = "backoff" =>
        IF rf.lastErr.kind = "http" /\ rf.lastErr.retryAfter > 0
        THEN rf.delay = rf.lastErr.retryAfter
        ELSE /\ 7 * BaseDelay * 2^(rf.attempt - 1) <= 10 * rf.delay
             /\ 10 * rf.delay <= 13 * BaseDelay * 2^(rf.attempt - 1)

C17_Witness ==
    /\ rf.pc = "backoff" /\ rf.attempt = 2
    /\ rf.lastErr = HTTPError(503, 2)
    /\ rf.delay = 2

\* C18 as stated: when the select of a backoff sleep takes the cancellation,
\* FetchJobs makes no further inner call and returns an error from which both
\* the cancellation and the last transient error can be recovered.
C18_CancelWrapsLastCause ==
    rf.how = "cancelled" =>
        /\ rf.calls = rf.attempt
        /\ CanceledErr \in Range(rf.ret)
        /\ rf.lastErr \in Range(rf.ret)

\* C18 amended: ... and returns an error that wraps the context's
\* cancellation error and nothing else (the last transient error is logged
\* before the sleep, not wrapped).
C18_CancelWrapsCtxErr ==
    rf.how = "cancelled" =>
        /\ rf.calls = rf.attempt
        /\ rf.ret = <<RetryCancelled, CanceledErr>>

C18_Witness ==
    /\ rf.how = "cancelled" /\ rf.pc = "returned"
    /\ rf.lastErr = HTTPError(500, 0)
    /\ rf.calls = 1

\* C19 as stated: any two inner fetch calls made for the same ATS group, one
\* right after the other (next poller, next pass, or a re-attempt of the
\* retry decorator), begin at least min_delay apart.
C19_SameGroupCallsMinDelayApart ==
    rf.gap # NoGap => rf.gap >= MinDelay

\* Poll calls of p begun so far
Started(p) == prev[p].n + (IF poll[p].pc = "idle" THEN 0 ELSE 1)

\* C20: every poller is in exactly one group, the one of its ATS tag, and a
\* group lists its pollers in config order; at most one Poll of a group is in
\* progress at any time; and the Poll calls of a group go round its pollers in
\* that order, pass after pass (an earlier poller has begun as many polls as a
\* later one, or one more).
C20_GroupsInOrderOneAtATime ==
    /\ \A p \in Pollers :
          {g \in ATSNames : \E i \in 1..Len(GroupByATS(g)) : GroupByATS(g)[i] = p}
              = {Companies[p].ats}
    /\ \A g \in ATSNames :
          LET group == GroupByATS(g)
          IN  /\ \A i, j \in 1..Len(group) : i < j => group[i] < group[j]
              /\ Cardinality({i \in 1..Len(group) : poll[group[i]].pc # "idle"}) <= 1
              /\ \A i, j \in 1..Len(group) :
                    i < j => Started(group[i]) - Started(group[j]) \in {0, 1}

C20_Witness ==
    \E g \in ATSNames :
        /\ Len(GroupByATS(g)) = 2
        /\ Started(GroupByATS(g)[1]) = 2 /\ Started(GroupByATS(g)[2]) = 1
        /\ poll[GroupByATS(g)[1]].pc = "returned"

\* C21: whatever the Poll calls of a pass returned, the worker of a group has
\* polled exactly the pollers before its place in the group, each once and in
\* order; when it reaches the polling_interval sleep it has polled every
\* poller of the group exactly once.
C21_ErrorsSkipNoPoller ==
    \A g \in ATSNames :
        /\ lp.wpc[g] \in {"loop", "polling"} =>
              lp.pass[g] = SubSeq(GroupByATS(g), 1, lp.widx[g] - 1)
        /\ lp.wpc[g] = "minDelay" => lp.pass[g] = SubSeq(GroupByATS(g), 1, lp.widx[g])
        /\ lp.wpc[g] = "interval" => lp.pass[g] = GroupByATS(g)

C21_Witness ==
    \E g \in ATSNames :
        /\ ~cancelled
        /\ lp.wpc[g] = "interval"
        /\ Len(GroupByATS(g)) > 1
        /\ lp.last[GroupByATS(g)[1]] = "err"
        /\ lp.pass[g] = GroupByATS(g)

\* C22: the groups are independent: as long as the Poll calls of a group b
\* return, and the context is not cancelled, the worker of b keeps completing
\* its passes, whether the Poll calls of any other group return, fail or
\* block for ever.
C22_GroupsIndependent ==
    \A b \in ATSNames :
        WF_vars(LoopPollReturns(b)) =>
            (<>cancelled \/ []<>(lp.wpc[b] = "interval" /\ lp.pass[b] = GroupByATS(b)))

C22_Witness ==
    \E a \in ATSNames : \E b \in ATSNames \ {a} :
        /\ ~cancelled
        /\ lp.inPoll[GroupByATS(a)[1]] /\ lp.pass[a] = << >>
        /\ lp.last[GroupByATS(a)[1]] = "none"
        /\ lp.wpc[b] = "polling" /\ lp.pass[b] = << >>
        /\ \A i \in 1..Len(GroupByATS(b)) : lp.last[GroupByATS(b)[i]] # "none"

\* C23: Run returns only once every worker has returned; a worker that sleeps
\* (min_delay or polling_interval) when the context is cancelled can return
\* at once, without the timer; and if every Poll call in flight returns, a
\* cancellation leads to every worker having returned and Run having
\* returned nil.
C23_CancelStopsRun ==
    /\ [](lp.done => \A g \in ATSNames : lp.wpc[g] = "exited")
    /\ [](\A g \in ATSNames :
             (cancelled /\ lp.wpc[g] \in {"minDelay", "interval"})
                 => ENABLED LoopSleepCancelled(g))
    /\ (\A g \in ATSNames : WF_vars(LoopPollReturns(g)))
           => (cancelled ~> (lp.done /\ \A g \in ATSNames : lp.wpc[g] = "exited"))

\* Run has returned after one worker left its interval sleep and another its
\* min_delay sleep
C23_Witness ==
    /\ cancelled /\ lp.done
    /\ \E g \in ATSNames : lp.wpc[g] = "exited" /\ lp.pass[g] = GroupByATS(g)
    /\ \E g \in ATSNames :
          /\ lp.wpc[g] = "exited"
          /\ Len(lp.pass[g]) = lp.widx[g] /\ lp.widx[g] < Len(GroupByATS(g))

\* C24: no worker and no Run returns unless the context was cancelled, whatever
\* the Poll calls returned; and if every Poll call returns and the context is
\* never cancelled, every poller is polled again and again, each time after
\* its group has slept a polling_interval.
C24_SchedulerIsPermanent ==
    /\ []((lp.done \/ \E g \in ATSNames : lp.wpc[g] = "exited") => cancelled)
    /\ (\A g \in ATSNames : WF_vars(LoopPollReturns(g)))
           => (<>cancelled
               \/ \A g \in ATSNames : \A i \in 1..Len(GroupByATS(g)) :
                     /\ []<>(lp.wpc[g] = "interval")
                     /\ []<>lp.inPoll[GroupByATS(g)[i]])

\* after a pass whose Poll calls all failed, the next pass is under way
C24_Witness ==
    \E g \in ATSNames :
        /\ ~cancelled /\ Len(GroupByATS(g)) > 1
        /\ \A i \in 1..Len(GroupByATS(g)) : lp.last[GroupByATS(g)[i]] = "err"
        /\ lp.widx[g] = 1 /\ lp.inPoll[GroupByATS(g)[1]]

\* C25 as stated: the min_delay sleep between two consecutive pollers of a
\* group lasts MinDelayFor(ats): the override of the group's ATS when the
\* configuration has one, the global min_delay otherwise.
C25_SleepIsMinDelayFor ==
    \A g \in ATSNames : lp.wpc[g] = "minDelay" => lp.slept[g] = MinDelayFor(g)

OlderThan(s, t, olderThan) == {x \in DOMAIN s : s[x] < t - olderThan}

\* C27 as stated: Cleanup(olderThan) removes exactly the entries whose
\* first_seen is earlier than now - olderThan and leaves the others as they
\* were; no other operation removes an entry.
C27_CleanupRemovesExactlyOld ==
    [][/\ StoreCleanup =>
             /\ DOMAIN store' = DOMAIN store \ OlderThan(store, now, op'.olderThan)
             /\ \A x \in DOMAIN store' : store'[x] = store[x]
       /\ ~StoreCleanup =>
             /\ DOMAIN store \subseteq DOMAIN store'
             /\ \A x \in DOMAIN store : store'[x] = store[x]]_vars

\* the page after which the claimed rule stops: the first page without a
\* fresh entry, else the last page
StopPage(pages) ==
    LET stale == {i \in 1..Len(pages) : \A k \in 1..PageLen : ~pages[i][k]}
    IN  IF stale = {} THEN Len(pages)
        ELSE CHOOSE i \in stale : \A j \in stale : i <= j

\* C28 as stated: in normal mode a paginating adapter, Workday or Microsoft,
\* fetches pages up to and including the first page that holds no fresh
\* entry, or all of them when there is no such page; it does not stop at a
\* page merely because that page's last entry is stale.
C28_StopsOnlyOnStalePage ==
    (pg.pc = "done" /\ ~pg.audit) => pg.n = StopPage(pg.pages)

\* C29: when Notify has returned, it has attempted one message per job of the
\* batch, in batch order; for a non-empty batch it returned an error exactly
\* when every message failed; for an empty batch it returned nil and
\* attempted nothing.
C29_NotifyFailsOnlyIfAllFail ==
    sl.pc = "returned" =>
        /\ Len(sl.sent) = Len(sl.jobs)
        /\ \A i \in 1..Len(sl.jobs) : sl.sent[i].job = sl.jobs[i]
        /\ sl.jobs # << >> => (sl.ret = "error" <=> \A i \in 1..Len(sl.sent) : ~sl.sent[i].ok)
        /\ sl.jobs = << >> => sl.ret = "nil"

\* a batch whose first message failed and whose second went through
C29_Witness ==
    /\ sl.pc = "returned" /\ sl.ret = "nil"
    /\ Len(sl.jobs) > 1
    /\ ~sl.sent[1].ok /\ sl.sent[2].ok

IdSeq(batch) == [i \in 1..Len(batch) |-> batch[i].id]

\* C31: a Poll that has returned after a successful Notify has called
\* MarkSeen for every identifier of the delivered batch, in order, unless a
\* MarkSeen failed (then for those before the failure), whether or not the
\* context was cancelled meanwhile; and a worker has returned only between
\* Poll calls, never inside one.
C31_CommitLoopIgnoresCancel ==
    /\ \A p \in Pollers :
          (Returned(p) /\ poll[p].notify # << >> /\ poll[p].notify[1].ok) =>
              \/ /\ poll[p].err = "nil"
                 /\ poll[p].commits = IdSeq(poll[p].notify[1].batch)
              \/ /\ poll[p].err = "markSeen"
                 /\ Len(poll[p].commits) < Len(poll[p].notify[1].batch)
                 /\ poll[p].commits = SubSeq(IdSeq(poll[p].notify[1].batch), 1, Len(poll[p].commits))
    /\ \A g \in ATSNames : wpc[g] = "exited" => poll[Current(g)].pc = "idle"

\* the context is cancelled while a commit loop is between two identifiers
C31_Witness ==
    \E p \in Pollers :
        /\ cancelled
        /\ poll[p].pc = "markSeen" /\ poll[p].k = 2
        /\ Len(poll[p].newJobs) >= 2
        /\ poll[p].notify # << >> /\ poll[p].notify[1].ok

\* the previous cycle of p delivered a batch and then failed in its commit loop
CommitFailedBefore(p) ==
    /\ prev[p].ran /\ ~prev[p].firstRun /\ ~prev[p].ok
    /\ prev[p].notify # << >> /\ prev[p].notify[1].ok

\* the dedup loop of p's cycle is over: Notify is about to be called with
\* newJobs, or Poll has returned without anything to deliver
DedupOver(p) ==
    \/ poll[p].pc = "notify"
    \/ Returned(p) /\ poll[p].err = "nil" /\ poll[p].notify = << >>

\* the cycle of p that follows a failed commit loop, on the same upstream response
SameResponseAfterFailure(p) ==
    /\ CommitFailedBefore(p)
    /\ NonSeeding(p) /\ poll[p].fetched = "ok" /\ poll[p].jobs = prev[p].jobs
    /\ DedupOver(p)

\* C32 as stated: after a commit loop that failed on some identifier of the
\* delivered batch, the next cycle with the same upstream response delivers
\* again every job of that batch whose identifier is not in the store, and
\* none whose identifier is.
C32_UncommittedDeliveredAgain ==
    \A p \in Pollers :
        SameResponseAfterFailure(p) =>
            \A j \in Range(prev[p].notify[1].batch) :
                IF Committed(j.id) THEN j \notin Range(poll[p].newJobs)
                ELSE j \in Range(poll[p].newJobs)

\* C32 amended: the same, where a job whose identifier is not in the store is
\* delivered again if it still passes the freshness gate of the new cycle.
C32_UncommittedFreshDeliveredAgain ==
    \A p \in Pollers :
        SameResponseAfterFailure(p) =>
            \A j \in Range(prev[p].notify[1].batch) :
                IF Committed(j.id) THEN j \notin Range(poll[p].newJobs)
                ELSE j \in Range(poll[p].matched) => j \in Range(poll[p].newJobs)

\* the cycle after the failure is about to deliver a job of the failed batch again
C32_Witness ==
    \E p \in Pollers :
        /\ SameResponseAfterFailure(p)
        /\ poll[p].pc = "notify"
        /\ \E j \in Range(prev[p].notify[1].batch) :
              ~Committed(j.id) /\ j \in Range(poll[p].newJobs)

\* C33: FetchJobs returns on the first attempt that succeeds, with that
\* attempt's jobs, and on the first attempt that fails with a non-retryable
\* error, with that error unchanged; every earlier attempt of the call failed
\* with a retryable error, and after the decisive attempt there is no sleep
\* and no further call.
C33_StopsAtFirstDecisiveOutcome ==
    /\ (rf.calls > 0 /\ rf.err = NoErr) =>
          /\ rf.pc = "returned" /\ rf.how = "ok"
          /\ rf.ret = << >> /\ rf.jobs = rf.inner
          /\ rf.calls = rf.attempt + 1
    /\ (rf.calls > 0 /\ rf.err # NoErr /\ ~ClaimedRetryable(rf.err)) =>
          /\ rf.pc = "returned" /\ rf.how = "fatal"
          /\ rf.ret = <<rf.err>> /\ rf.jobs = << >>
          /\ rf.calls = rf.attempt + 1
    /\ rf.how = "ok" => rf.pc = "returned" /\ rf.err = NoErr
    /\ rf.how = "fatal" => rf.pc = "returned" /\ ~ClaimedRetryable(rf.err)

\* the second attempt succeeded with two jobs
C33_Witness ==
    /\ rf.pc = "returned" /\ rf.how = "ok"
    /\ rf.calls = 2 /\ Len(rf.jobs) = 2
    /\ rf.lastErr # NoErr

\* C34: Wait keeps the nil returns for one ATS at least minDelay apart, whichever
\* goroutines made the calls; a goroutine sleeps in Wait only on account of an
\* earlier request to its own ATS; a Wait that ends before its timer fired, as
\* it does when cancelled while waiting, returns an error
C34_MinDelayPerATS ==
    /\ \A a \in ATSNames : rl.gap[a] = NoTime \/ rl.gap[a] >= WaitMinDelay
    /\ \A g \in Callers :
          rl.call[g].pc = "sleeping" =>
              /\ rl.lastCall[rl.call[g].ats] # NoTime
              /\ rl.call[g].wake <= rl.lastCall[rl.call[g].ats] + WaitMinDelay
    /\ \A g \in Callers :
          rl.call[g].pc = "returned" /\ rl.call[g].at < rl.call[g].wake =>
              rl.call[g].ret = "err"

\* the detail response carries the listing's title and location text
SameTexts(w) ==
    /\ w.detail.title = w.listing.title
    /\ fetchDetail(w.detail).location = w.listing.locationsText
\* what the poller's filter keeps when no pre-filter is injected
MatchedWithoutPreFilter(w) ==
    PollMatched(WorkdayFetchJobs(w.listing, w.detail, w.detailErr, FALSE, w.auditMode))

\* C35 as stated: a fresh listing with an ambiguous location text always gets
\* its detail fetch, the pre-filter vetoes the detail fetch of a fresh listing
\* only when the poller's filter rejects the detailed job, and the poller keeps
\* the same jobs with and without the pre-filter
C35_PreFilterOnlyOptimizes ==
    /\ wd.pc # "ready" /\ wd.listing.fresh /\ isAmbiguousLocation(wd.listing.locationsText)
           => wd.detailFetched
    /\ wd.pc # "ready" /\ wd.listing.fresh /\ wd.preFilter /\ ~wd.detailFetched
           => ~Match(fetchDetail(wd.detail))
    /\ wd.pc = "done" => wd.matched = MatchedWithoutPreFilter(wd)

\* C35, amended: the same, for listings whose location text is ambiguous or
\* whose detail response carries the listing's title and location text
C35_PreFilterOnlyOptimizesSameTexts ==
    /\ wd.pc # "ready" /\ wd.listing.fresh /\ isAmbiguousLocation(wd.listing.locationsText)
           => wd.detailFetched
    /\ wd.pc # "ready" /\ wd.listing.fresh /\ wd.preFilter /\ ~wd.detailFetched
           /\ SameTexts(wd)
           => ~Match(fetchDetail(wd.detail))
    /\ wd.pc = "done"
           /\ (isAmbiguousLocation(wd.listing.locationsText) \/ SameTexts(wd))
           => wd.matched = MatchedWithoutPreFilter(wd)

\* the pre-filter has vetoed the detail fetch of a fresh listing whose detail
\* carries the same texts, and the poller's filter has run
C35_Witness ==
    /\ wd.pc = "done" /\ wd.preFilter /\ wd.listing.fresh /\ ~wd.detailFetched
    /\ ~isAmbiguousLocation(wd.listing.locationsText)
    /\ SameTexts(wd)

\* no identifier occurs at two places of the batch
DistinctIds(batch) ==
    \A i, j \in 1..Len(batch) : batch[i].id = batch[j].id => i = j

\* C36: no batch handed to the notifier holds an identifier twice, and a
\* cycle that follows one whose Notify and commits all succeeded delivers no
\* identifier of that earlier batch again
C36_NoIdentifierTwice ==
    \A p \in Pollers :
        /\ \A i \in 1..Len(poll[p].notify) : DistinctIds(poll[p].notify[i].batch)
        /\ DeliveredAndCommitted(p) =>
               Ids(Delivered(poll[p])) \cap Ids(prev[p].notify[1].batch) = {}

\* no poller of p's ATS source has completed a Poll yet: nothing of that
\* source has been committed
SourceNeverCommitted(p) ==
    \A q \in Pollers : Companies[q].ats = Companies[p].ats => prev[q].n = 0

\* C37: a job is dropped as already seen only on account of a commit for a
\* job of its own source; while no poller of its source has committed
\* anything, the dedup loop of a non-seeding cycle keeps every matched job
C37_DedupRespectsSource ==
    \A p \in Pollers :
        NonSeeding(p) /\ DedupOver(p) /\ SourceNeverCommitted(p) =>
            IdSeq(poll[p].newJobs) = IdSeq(poll[p].matched)

\* C38: with the Slack notifier, an identifier is in the store only if a
\* message for a job with that identifier was sent successfully
C38_CommittedOnlyIfDelivered ==
    \A id \in DOMAIN store :
        \E i \in 1..Len(sl.sent) : sl.sent[i].job = id /\ sl.sent[i].ok

\* C39: once the context is cancelled no Poll begins: no step taken while
\* cancelled puts a poller inside Poll that was not inside it before
C39_NoPollAfterCancel ==
    [][cancelled => \A p \in Pollers : lp'.inPoll[p] => lp.inPoll[p]]_vars

\* a worker woken from the min-delay sleep has found the context cancelled at
\* the top of the loop and returned, its next poller not polled in this pass
C39_Witness ==
    /\ cancelled
    /\ \E g \in ATSNames :
          /\ lp.wpc[g] = "exited"
          /\ lp.widx[g] > 1
          /\ Len(lp.pass[g]) = lp.widx[g] - 1
    /\ \A p \in Pollers : ~lp.inPoll[p]

\* the job came through the filter loop of a cycle that fetched jobs at hour t
PassedFilterLoop(j, jobs, firstRun, t) ==
    /\ j \in Range(jobs)
    /\ Match(j)
    /\ firstRun \/ ~Stale(j, t)

\* C40: what the filter loop of a cycle keeps was fetched in that cycle,
\* accepted by the filter and, on a non-seeding cycle, not stale; newJobs holds
\* only such jobs; every step that changes the store adds one identifier that
\* was not in it, the identifier of a job in newJobs of the Poll that takes
\* the step, on a non-seeding cycle after Notify succeeded with a batch that
\* holds it; and no step removes an identifier
C40_PollAddsOnlyDeliveredIds ==
    [][/\ \A p \in Pollers :
             poll[p].pc = "fetch" /\ poll'[p].fetched = "ok" =>
                 \A j \in Range(poll'[p].matched) :
                     PassedFilterLoop(j, poll'[p].jobs, poll'[p].firstRun, now)
       /\ \A p \in Pollers : Range(poll'[p].newJobs) \subseteq Range(poll'[p].matched)
       /\ DOMAIN store \subseteq DOMAIN store'
       /\ store' # store =>
             \E p \in Pollers : \E j \in Range(poll[p].newJobs) :
                 /\ poll[p].pc \in {"seed", "markSeen"}
                 /\ ~Committed(j.id)
                 /\ store' = MarkSeen(store, j.id, now)
                 /\ NonSeeding(p) =>
                        /\ poll[p].notify # << >>
                        /\ poll[p].notify[Len(poll[p].notify)].ok
                        /\ j \in Range(poll[p].notify[Len(poll[p].notify)].batch)
      ]_vars

\* a non-seeding cycle has committed a delivered identifier while a job of
\* the same fetched list that the filter rejected stays out of the store
C40_Witness ==
    \E p \in Pollers :
        /\ NonSeeding(p) /\ poll[p].commits # << >>
        /\ \A i \in 1..Len(poll[p].commits) : Committed(poll[p].commits[i])
        /\ \E j \in Range(poll[p].jobs) : ~Match(j) /\ ~Committed(j.id)

====
